---------------------------- MODULE Spec2Model ----------------------------
(***************************************************************************)
(* The entity-reconciliation and aggregation pipeline of main.py: the      *)
(* alias resolver clean_country, the memoized article loader, the year     *)
(* filter and per-country aggregation, the metadata normalisation, the two *)
(* left merges that build df_map_full, the derived metrics and the         *)
(* per-country time series.                                                *)
(*                                                                         *)
(* A Python str is a tuple of one-character strings; the no-break space    *)
(* U+00A0 is written "NBSP".  None / NaN in an object column is NoneStr.   *)
(* A float64 is a record [kind, num, den]: NaN, Inf or the fraction        *)
(* num/den.                                                                *)
(***************************************************************************)
EXTENDS Integers, Sequences, FiniteSets, TLC

VARIABLES
    dir,                 \* the *.csv files under AfricanArticles/
    metadata_csv,        \* the rows of africa_gdp_population.csv
    geo_names,           \* properties.name of the features of the geo json
    cache,               \* the memo of st.cache_data for load_and_combine_data
    slider,              \* the year slider's widget state
    selectbox,           \* the country selectbox's widget state
    pc,                  \* the position of the script run
    df,                  \* the combined article records
    df_year,             \* the records of the selected year
    df_gb_year_country,  \* article totals per country label
    df_meta,             \* the normalised metadata table
    df_map,              \* article totals with metadata attached
    df_geo,              \* the geo entities with their keys
    df_map_full,         \* the reconciled table
    df_country_time      \* the time series of the selected country

vars == << dir, metadata_csv, geo_names, cache, slider, selectbox, pc, df,
           df_year, df_gb_year_country, df_meta, df_map, df_geo, df_map_full,
           df_country_time >>

-----------------------------------------------------------------------------
(* Characters and the str methods the script calls.                         *)

Digits == <<"0", "1", "2", "3", "4", "5", "6", "7", "8", "9">>

Uppers ==
    <<"A", "B", "C", "D", "E", "F", "G", "H", "I", "J", "K", "L", "M", "N",
      "O", "P", "Q", "R", "S", "T", "U", "V", "W", "X", "Y", "Z",
      "Ã", "É", "Í", "Ô">>

Lowers ==
    <<"a", "b", "c", "d", "e", "f", "g", "h", "i", "j", "k", "l", "m", "n",
      "o", "p", "q", "r", "s", "t", "u", "v", "w", "x", "y", "z",
      "ã", "é", "í", "ô">>

\* The characters of the model in code point order (sorting compares these).
CodePoints ==
    <<"TAB", " ", "'", ",", "-", ".", "/">> \o Digits \o <<":">>
      \o SubSeq(Uppers, 1, 26) \o <<"_">> \o SubSeq(Lowers, 1, 26)
      \o <<"NBSP">> \o SubSeq(Uppers, 27, 30) \o SubSeq(Lowers, 27, 30)

Range(s) == { s[i] : i \in DOMAIN s }

IndexOf(s, c) == CHOOSE i \in DOMAIN s : s[i] = c

IsDigit(c) == c \in Range(Digits)

IsCased(c) == c \in Range(Uppers) \cup Range(Lowers)

\* \w of the re module: letters, digits and the underscore.
IsWord(c) == IsCased(c) \/ IsDigit(c) \/ c = "_"

\* str.isspace(): U+00A0 is white space too.
IsSpace(c) == c \in {" ", "TAB", "NBSP"}

LowerChar(c) == IF c \in Range(Uppers) THEN Lowers[IndexOf(Uppers, c)] ELSE c

UpperChar(c) == IF c \in Range(Lowers) THEN Uppers[IndexOf(Lowers, c)] ELSE c

Lower(s) == [i \in DOMAIN s |-> LowerChar(s[i])]

\* str.title(): a cased character is upper-cased after an uncased one (or at
\* the start) and lower-cased after a cased one.
Title(s) ==
    [i \in DOMAIN s |->
        IF i = 1 \/ ~IsCased(s[i - 1]) THEN UpperChar(s[i]) ELSE LowerChar(s[i])]

Replace(s, old, new) == [i \in DOMAIN s |-> IF s[i] = old THEN new ELSE s[i]]

\* str.replace(c, ""): every occurrence of the character removed.
Remove(s, c) == SelectSeq(s, LAMBDA x : x # c)

Strip(s) ==
    LET keep == { i \in DOMAIN s : ~IsSpace(s[i]) }
    IN  IF keep = {} THEN <<>>
        ELSE SubSeq(s, CHOOSE i \in keep : \A j \in keep : i <= j,
                       CHOOSE i \in keep : \A j \in keep : j <= i)

\* str.split(sep)[0]: the text before the first separator.
SplitFirst(s, sep) ==
    LET at == { i \in DOMAIN s : s[i] = sep }
    IN  IF at = {} THEN s
        ELSE SubSeq(s, 1, (CHOOSE i \in at : \A j \in at : i <= j) - 1)

\* Where sub occurs in s.
Occurrences(s, sub) ==
    { i \in 1..(Len(s) - Len(sub) + 1) : SubSeq(s, i, i + Len(sub) - 1) = sub }

\* Series.str.contains(sub) for a pattern of digits: a substring test.
Contains(s, sub) == Occurrences(s, sub) # {}

FourDigitsAt(s, i) == i + 3 <= Len(s) /\ \A j \in i..(i + 3) : IsDigit(s[j])

\* Where \b(\d{4})\b matches: four digits with no word character on either
\* side.
BoundedYearAt(s, i) ==
    /\ FourDigitsAt(s, i)
    /\ (i = 1 \/ ~IsWord(s[i - 1]))
    /\ (i + 3 = Len(s) \/ ~IsWord(s[i + 4]))

Least(S) == CHOOSE i \in S : \A j \in S : i <= j

NoneStr == <<"None">>

\* re.search(r"\b(\d{4})\b", s): group 1 of the leftmost match, or None.
SearchBoundedYear(s) ==
    LET at == { i \in DOMAIN s : BoundedYearAt(s, i) }
    IN  IF at = {} THEN NoneStr ELSE SubSeq(s, Least(at), Least(at) + 3)

\* Series.str.extract(r"(\d{4})")[0]: the leftmost four digits, or NaN.
ExtractYear(s) ==
    LET at == { i \in DOMAIN s : FourDigitsAt(s, i) }
    IN  IF at = {} THEN NoneStr ELSE SubSeq(s, Least(at), Least(at) + 3)

RECURSIVE ToInt(_)
\* int(s) of a string of digits.
ToInt(s) ==
    IF s = <<>> THEN 0
    ELSE 10 * ToInt(SubSeq(s, 1, Len(s) - 1)) + (IndexOf(Digits, s[Len(s)]) - 1)

RECURSIVE ToStr(_)
\* str(n) of a non-negative int.
ToStr(n) == IF n < 10 THEN <<Digits[n + 1]>> ELSE ToStr(n \div 10) \o <<Digits[(n % 10) + 1]>>

RECURSIVE LexLess(_, _)
\* s < t of two str: code point order, a proper prefix first.
LexLess(s, t) ==
    IF t = <<>> THEN FALSE
    ELSE IF s = <<>> THEN TRUE
    ELSE IF s[1] # t[1] THEN IndexOf(CodePoints, s[1]) < IndexOf(CodePoints, t[1])
    ELSE LexLess(Tail(s), Tail(t))

RECURSIVE Sorted(_)
\* sorted(S) of a set of str.
Sorted(S) ==
    IF S = {} THEN <<>>
    ELSE LET m == CHOOSE x \in S : \A y \in S \ {x} : LexLess(x, y)
         IN  <<m>> \o Sorted(S \ {m})

-----------------------------------------------------------------------------
(* The alias resolver.                                                      *)

\* The dict literal as Python builds it: "Eq.Guinea: eq" has no value of its
\* own and is concatenated with the string literal that follows it, so the
\* fourth key is "Eq.Guinea: eqdem. rep. congo" and "dem. rep. congo" is no
\* key.
COUNTRY_ALIASES ==
    << [key   |-> <<"s", "o", "u", "t", "h", " ", "s", "u", "d", "a", "n">>,
        value |-> <<"s", ".", " ", "s", "u", "d", "a", "n">>],
       [key   |-> <<"r", "e", "p", "u", "b", "l", "i", "c", " ", "o", "f", " ", "d", "j", "i", "b", "o", "u", "t", "i">>,
        value |-> <<"d", "j", "i", "b", "o", "u", "t", "i">>],
       [key   |-> <<"D", "j", "i", "b", "o", "u", "t", "i", ".">>,
        value |-> <<"d", "j", "i", "b", "o", "u", "t", "i">>],
       [key   |-> <<"E", "q", ".", "G", "u", "i", "n", "e", "a", ":", " ", "e", "q", "d", "e", "m", ".", " ", "r", "e", "p", ".", " ", "c", "o", "n", "g", "o">>,
        value |-> <<"d", "e", "m", ".", " ", "r", "e", "p", ".", " ", "c", "o", "n", "g", "o">>],
       [key   |-> <<"d", "e", "m", "o", "c", "r", "a", "t", "i", "c", " ", "r", "e", "p", "u", "b", "l", "i", "c", " ", "o", "f", " ", "t", "h", "e", " ", "c", "o", "n", "g", "o">>,
        value |-> <<"d", "e", "m", ".", " ", "r", "e", "p", ".", " ", "c", "o", "n", "g", "o">>],
       [key   |-> <<"c", "e", "n", "t", "r", "a", "l", " ", "a", "f", "r", "i", "c", "a", "n", " ", "r", "e", "p", "u", "b", "l", "i", "c">>,
        value |-> <<"c", "e", "n", "t", "r", "a", "l", " ", "a", "f", "r", "i", "c", "a", "n", " ", "r", "e", "p", ".">>],
       [key   |-> <<"c", "ô", "t", "e", " ", "d", "'", "i", "v", "o", "i", "r", "e">>,
        value |-> <<"i", "v", "o", "r", "y", " ", "c", "o", "a", "s", "t">>],
       [key   |-> <<"c", "o", "t", "e", " ", "d", "'", "i", "v", "o", "i", "r", "e">>,
        value |-> <<"i", "v", "o", "r", "y", " ", "c", "o", "a", "s", "t">>],
       [key   |-> <<"e", "q", " ", "g", "u", "i", "n", "e", "a">>,
        value |-> <<"e", "q", "u", "a", "t", "o", "r", "i", "a", "l", " ", "g", "u", "i", "n", "e", "a">>],
       [key   |-> <<"e", "q", "u", "a", "t", "o", "r", "i", "a", "l", " ", "g", "u", "i", "n", "e", "a">>,
        value |-> <<"e", "q", "u", "a", "t", "o", "r", "i", "a", "l", " ", "g", "u", "i", "n", "e", "a">>],
       [key   |-> <<"t", "h", "e", " ", "g", "a", "m", "b", "i", "a">>,
        value |-> <<"g", "a", "m", "b", "i", "a">>],
       [key   |-> <<"s", "a", "o", " ", "t", "o", "m", "e", " ", "a", "n", "d", " ", "p", "r", "i", "n", "c", "i", "p", "e">>,
        value |-> <<"s", "ã", "o", " ", "t", "o", "m", "é", " ", "a", "n", "d", " ", "p", "r", "í", "n", "c", "i", "p", "e">>],
       [key   |-> <<"s", "ã", "o", " ", "t", "o", "m", "é", " ", "a", "n", "d", " ", "p", "r", "i", "n", "c", "i", "p", "e">>,
        value |-> <<"s", "ã", "o", " ", "t", "o", "m", "é", " ", "a", "n", "d", " ", "p", "r", "í", "n", "c", "i", "p", "e">>],
       [key   |-> <<"c", "a", "p", "e", " ", "v", "e", "r", "d", "e">>,
        value |-> <<"c", "a", "b", "o", " ", "v", "e", "r", "d", "e">>],
       [key   |-> <<"s", "w", "a", "z", "i", "l", "a", "n", "d">>,
        value |-> <<"e", "s", "w", "a", "t", "i", "n", "i">>] >>

AliasKeys == { COUNTRY_ALIASES[i].key : i \in DOMAIN COUNTRY_ALIASES }

\* dict.get(name, default)
AliasGet(name, default) ==
    IF name \in AliasKeys
    THEN COUNTRY_ALIASES[CHOOSE i \in DOMAIN COUNTRY_ALIASES :
                            COUNTRY_ALIASES[i].key = name].value
    ELSE default

\* pd.isna of a scalar: None and NaN, no str (the empty one included).
IsNa(name) == name = NoneStr

clean_country(name) ==
    IF IsNa(name) THEN NoneStr
    ELSE LET n == Strip(Replace(Lower(name), "NBSP", " "))
         IN  AliasGet(n, n)

-----------------------------------------------------------------------------
(* float64 values.                                                          *)

NaN == [kind |-> "nan", num |-> 0, den |-> 1]

Inf == [kind |-> "inf", num |-> 1, den |-> 1]

Float(n) == [kind |-> "num", num |-> n, den |-> 1]

IsNull(x) == x.kind = "nan"

\* x * k for an int k > 0
FMul(x, k) == IF x.kind = "num" THEN [x EXCEPT !.num = @ * k] ELSE x

\* x < y; False when either is NaN
FLess(x, y) ==
    /\ x.kind # "nan" /\ y.kind # "nan"
    /\ x.kind # "inf"
    /\ (y.kind = "inf" \/ x.num * y.den < y.num * x.den)

\* x / y of non-negative float64: a zero divisor gives inf, or NaN for 0/0.
FDiv(x, y) ==
    IF x.kind = "nan" \/ y.kind = "nan" THEN NaN
    ELSE IF y.kind = "inf" THEN (IF x.kind = "inf" THEN NaN ELSE Float(0))
    ELSE IF x.kind = "inf" THEN Inf
    ELSE IF y.num = 0 THEN (IF x.num = 0 THEN NaN ELSE Inf)
    ELSE [kind |-> "num", num |-> x.num * y.den, den |-> x.den * y.num]

\* Series.max(): NaN skipped; NaN when nothing is left.
SeriesMax(s) ==
    LET vals == { s[i] : i \in { j \in DOMAIN s : ~IsNull(s[j]) } }
    IN  IF vals = {} THEN NaN
        ELSE CHOOSE m \in vals : \A v \in vals : ~FLess(m, v)

\* pd.to_numeric(cell, errors="coerce") of a cell with the separators and the
\* white space around it removed.  The cells of the model hold no sign, decimal
\* point or exponent: a run of digits is its value, anything else NaN.
ToNumeric(s) ==
    IF s # <<>> /\ \A i \in DOMAIN s : IsDigit(s[i]) THEN Float(ToInt(s)) ELSE NaN

\* astype(str).str.replace(",", "").str.strip() and to_numeric; an empty cell
\* is NaN, whose str is "nan".
ParseNumber(cell) ==
    IF IsNa(cell) THEN NaN ELSE ToNumeric(Strip(Remove(cell, ",")))

-----------------------------------------------------------------------------
(* The source loader.                                                       *)

base_path == <<"A", "f", "r", "i", "c", "a", "n", "A", "r", "t", "i", "c", "l", "e", "s">>

\* One pass of the loop of load_and_combine_data: the rows of a file with the
\* country and the year its name gives.  The index of a record is the file
\* and the row it comes from (rglob yields the files in the file system's
\* order).
ReadFile(f) ==
    LET Country == Title(Strip(SplitFirst(f.stem, "_")))
        match   == SearchBoundedYear(f.stem)
        Year    == IF match # NoneStr THEN match ELSE f.parent
    IN  { [path |-> <<f.parent, f.stem>>, row |-> i, url |-> f.url[i],
           Country |-> Country, Year |-> Year] : i \in DOMAIN f.url }

\* pd.concat of the frames of every file.
load_and_combine_data(files) == UNION { ReadFile(f) : f \in files }

\* ("url", "count"): the rows whose url is not null.
CountUrl(rows) == Cardinality({ r \in rows : ~IsNa(r.url) })

\* The years the slider offers.
available_years_int(d) ==
    { ToInt(SearchBoundedYear(r.Year)) :
        r \in { q \in d : SearchBoundedYear(q.Year) # NoneStr } }

\* df[df["Year"].str.contains(str(selected_year))]
FilterYear(d, selected_year) ==
    { r \in d : Contains(r.Year, ToStr(selected_year)) }

\* groupby("Country").agg(total_articles=("url", "count")).reset_index() and
\* the Country_clean column.
GroupByCountry(d) ==
    LET labels == Sorted({ r.Country : r \in d })
    IN  [i \in DOMAIN labels |->
            [Country        |-> labels[i],
             total_articles |-> Float(CountUrl({ r \in d : r.Country = labels[i] })),
             Country_clean  |-> clean_country(labels[i])]]

-----------------------------------------------------------------------------
(* The metadata normaliser.                                                 *)

\* The table as read, with its Country_clean column and the columns whose
\* names contain Population and GDP parsed.
ParseMeta(rows) ==
    [i \in DOMAIN rows |->
        [Country       |-> rows[i].Country,
         Country_clean |-> clean_country(rows[i].Country),
         Population    |-> ParseNumber(rows[i].Population),
         GDP           |-> ParseNumber(rows[i].GDP)]]

Million == 1000000

Thousand == 1000

\* FixUnits deciding row by row instead of once on the column's maximum.
FixUnits_PerRow(table) ==
    [i \in DOMAIN table |->
        [table[i] EXCEPT !.Population =
            IF FLess(@, Float(Million)) THEN FMul(@, Thousand) ELSE @]]

\* Population in thousands to actual numbers, decided on the column's maximum.
FixUnits(table) ==
    IF FLess(SeriesMax([i \in DOMAIN table |-> table[i].Population]), Float(Million))
    THEN [i \in DOMAIN table |->
            [table[i] EXCEPT !.Population = FMul(@, Thousand)]]
    ELSE table

-----------------------------------------------------------------------------
(* The reconciliation engine and the metric deriver.                        *)

RECURSIVE LeftMerge(_, _, _)
\* left.merge(right, on="Country_clean", how="left"): the left rows in their
\* order, each once per right row of its key, or once with the right columns
\* null when no right row has its key.
LeftMerge(left, right, missing) ==
    IF left = <<>> THEN <<>>
    ELSE LET l == Head(left)
             m == SelectSeq(right, LAMBDA r : r.Country_clean = l.Country_clean)
         IN  (IF m = <<>> THEN << l @@ missing >>
              ELSE [i \in DOMAIN m |-> l @@ m[i]])
             \o LeftMerge(Tail(left), right, missing)

\* Both frames of the first merge have a Country column: pandas suffixes them.
SuffixX(t) ==
    [i \in DOMAIN t |->
        [Country_x |-> t[i].Country, total_articles |-> t[i].total_articles,
         Country_clean |-> t[i].Country_clean]]

SuffixY(t) ==
    [i \in DOMAIN t |->
        [Country_y |-> t[i].Country, Country_clean |-> t[i].Country_clean,
         Population |-> t[i].Population, GDP |-> t[i].GDP]]

NoMeta == [Country_y |-> NoneStr, Population |-> NaN, GDP |-> NaN]

NoArticles == [Country_x |-> NoneStr, total_articles |-> NaN] @@ NoMeta

\* df_gb_year_country.merge(df_meta, on="Country_clean", how="left")
MergeMeta(counts, meta) == LeftMerge(SuffixX(counts), SuffixY(meta), NoMeta)

GeoFrame(names) ==
    [i \in DOMAIN names |->
        [Country |-> names[i], Country_clean |-> clean_country(names[i])]]

\* FillTotals with the fillna left out.
FillTotals_NotFilled(t) == t

\* fillna(0) of the total_articles column
FillTotals(t) ==
    [i \in DOMAIN t |->
        [t[i] EXCEPT !.total_articles = IF IsNull(@) THEN Float(0) ELSE @]]

\* df_geo.merge(df_map, on="Country_clean", how="left") and the fillna
MergeGeo(geo, map) == FillTotals(LeftMerge(geo, map, NoArticles))

articles_per_million_people(row) ==
    FDiv(row.total_articles, FDiv(row.Population, Float(Million)))

articles_per_billion_gdp(row) == FDiv(row.total_articles, row.GDP)

DeriveMetrics(t) ==
    [i \in DOMAIN t |->
        t[i] @@ [articles_per_million_people |-> articles_per_million_people(t[i]),
                 articles_per_billion_gdp    |-> articles_per_billion_gdp(t[i])]]

-----------------------------------------------------------------------------
(* The time series.                                                         *)

RECURSIVE SortedInts(_)
SortedInts(S) ==
    IF S = {} THEN <<>> ELSE <<Least(S)>> \o SortedInts(S \ {Least(S)})

Year_int(r) == ToInt(ExtractYear(r.Year))

\* df[df["Country"] == selected_country].groupby("Year_int").agg(...)
CountryTime(d, selected_country) ==
    LET mine  == { r \in d : r.Country = selected_country }
        years == SortedInts({ Year_int(r) : r \in mine })
    IN  [i \in DOMAIN years |->
            [Year_int       |-> years[i],
             total_articles |-> CountUrl({ r \in mine : Year_int(r) = years[i] })]]

-----------------------------------------------------------------------------
(* The inputs.                                                              *)

File(parent, stem, url) == [parent |-> parent, stem |-> stem, url |-> url]

U == <<"u">>

Rows3 == <<U, U, U>>

Rows5 == <<U, U, U, U, U>>

\* Files as the data set lays them out: <year>/<country>_<year>.csv
Kenya2021 == File(<<"2", "0", "2", "1">>, <<"k", "e", "n", "y", "a", "_", "2", "0", "2", "1">>, Rows3)

Kenya2022 == File(<<"2", "0", "2", "2">>, <<"k", "e", "n", "y", "a", "_", "2", "0", "2", "2">>, Rows5)

Cote2021 == File(<<"2", "0", "2", "1">>, <<"c", "o", "t", "e", " ", "d", "'", "i", "v", "o", "i", "r", "e", "_", "2", "0", "2", "1">>, <<U>>)

CoteAccent2021 == File(<<"2", "0", "2", "1">>, <<"c", "ô", "t", "e", " ", "d", "'", "i", "v", "o", "i", "r", "e", "_", "2", "0", "2", "1">>, <<U, U>>)

\* The same names elsewhere under the root, and names the pattern finds a
\* year in.
KenyaAtRoot2021 == File(base_path, <<"k", "e", "n", "y", "a", "_", "2", "0", "2", "1">>, Rows3)

KenyaMisfiled2021 == File(<<"2", "0", "2", "2">>, <<"k", "e", "n", "y", "a", "_", "2", "0", "2", "1">>, Rows3)

KenyaSpan2022 == File(<<"2", "0", "2", "1", "-", "2", "0", "2", "2">>, <<"k", "e", "n", "y", "a", "_", "2", "0", "2", "2">>, Rows5)

KenyaDashed2022 == File(<<"k", "e", "n", "y", "a">>, <<"k", "e", "n", "y", "a", "_", "n", "e", "w", "s", "-", "2", "0", "2", "2">>, Rows5)

GhanaNoUrl2021 == File(<<"2", "0", "2", "1">>, <<"g", "h", "a", "n", "a", "_", "2", "0", "2", "1">>, <<U, NoneStr>>)

MetaRow(country, population, gdp) ==
    [Country |-> country, Population |-> population, GDP |-> gdp]

MaxFiles == 2

MaxMetaRows == 2

MaxGeo == 2

SeqsUpTo(S, n) == UNION { [1..k -> S] : k \in 0..n }

\* A directory holds one file per path.
Directories(files, n) ==
    { d \in SUBSET files :
        /\ Cardinality(d) <= n
        /\ \A f, g \in d : f.parent = g.parent /\ f.stem = g.stem => f = g }

\* A metadata table holds one row per country name.
Tables(rows, n) ==
    { t \in SeqsUpTo(rows, n) :
        \A i, j \in DOMAIN t : t[i].Country = t[j].Country => i = j }

Unset == <<>>

NoSlider == [shown |-> FALSE, min |-> 0, max |-> 0, value |-> 0]

NoSelectbox == [options |-> <<>>, value |-> NoneStr]

\* What a run of the script starts from.
FreshRun ==
    /\ pc = "load"
    /\ df = {}
    /\ df_year = {}
    /\ df_gb_year_country = Unset
    /\ df_meta = Unset
    /\ df_map = Unset
    /\ df_geo = Unset
    /\ df_map_full = Unset
    /\ df_country_time = Unset

InitWith(dirs, metas, geos) ==
    /\ dir \in dirs
    /\ metadata_csv \in metas
    /\ geo_names \in geos
    /\ cache = {}
    /\ slider = NoSlider
    /\ selectbox = NoSelectbox
    /\ FreshRun

inputs == << dir, metadata_csv, geo_names >>

-----------------------------------------------------------------------------
(* The script, section by section.                                          *)

Cached(key) == { e \in cache : e.key = key }

\* df = load_and_combine_data("AfricanArticles") under st.cache_data: the memo
\* is keyed by the argument; a call that raises (pd.concat of no frame) stores
\* nothing.
LoadData ==
    /\ pc = "load"
    /\ IF Cached(base_path) # {}
       THEN /\ df' = (CHOOSE e \in Cached(base_path) : TRUE).value
            /\ pc' = "year"
            /\ UNCHANGED cache
       ELSE IF dir = {}
       THEN /\ pc' = "error"
            /\ UNCHANGED << df, cache >>
       ELSE /\ df' = load_and_combine_data(dir)
            /\ cache' = cache \cup {[key   |-> base_path,
                                      value |-> load_and_combine_data(dir)]}
            /\ pc' = "year"
    /\ UNCHANGED << inputs, slider, selectbox, df_year, df_gb_year_country,
                    df_meta, df_map, df_geo, df_map_full, df_country_time >>

selected_year == slider.value

Greatest(S) == CHOOSE i \in S : \A j \in S : j <= i

\* The slider over the available years and the filter on the selected one.
\* The slider returns the user's value while its range is the one the user
\* saw, its default (the minimum) otherwise; min() of no year raises.
YearSelection ==
    /\ pc = "year"
    /\ LET years == available_years_int(df)
       IN  IF years = {}
           THEN /\ pc' = "error"
                /\ UNCHANGED << slider, df_year >>
           ELSE LET lo == Least(years)
                    hi == Greatest(years)
                    value == IF slider.shown /\ slider.min = lo /\ slider.max = hi
                             THEN slider.value ELSE lo
                IN  /\ slider' = [shown |-> TRUE, min |-> lo, max |-> hi,
                                  value |-> value]
                    /\ df_year' = FilterYear(df, value)
                    /\ pc' = "aggregate"
    /\ UNCHANGED << inputs, cache, selectbox, df, df_gb_year_country, df_meta,
                    df_map, df_geo, df_map_full, df_country_time >>

AggregateArticles ==
    /\ pc = "aggregate"
    /\ df_gb_year_country' = GroupByCountry(df_year)
    /\ pc' = "metadata"
    /\ UNCHANGED << inputs, cache, slider, selectbox, df, df_year, df_meta,
                    df_map, df_geo, df_map_full, df_country_time >>

LoadMetadata ==
    /\ pc = "metadata"
    /\ df_meta' = FixUnits(ParseMeta(metadata_csv))
    /\ pc' = "merge"
    /\ UNCHANGED << inputs, cache, slider, selectbox, df, df_year,
                    df_gb_year_country, df_map, df_geo, df_map_full,
                    df_country_time >>

MergeCounts ==
    /\ pc = "merge"
    /\ df_map' = MergeMeta(df_gb_year_country, df_meta)
    /\ pc' = "geo"
    /\ UNCHANGED << inputs, cache, slider, selectbox, df, df_year,
                    df_gb_year_country, df_meta, df_geo, df_map_full,
                    df_country_time >>

LoadGeo ==
    /\ pc = "geo"
    /\ df_geo' = GeoFrame(geo_names)
    /\ pc' = "reconcile"
    /\ UNCHANGED << inputs, cache, slider, selectbox, df, df_year,
                    df_gb_year_country, df_meta, df_map, df_map_full,
                    df_country_time >>

Reconcile ==
    /\ pc = "reconcile"
    /\ df_map_full' = MergeGeo(df_geo, df_map)
    /\ pc' = "metrics"
    /\ UNCHANGED << inputs, cache, slider, selectbox, df, df_year,
                    df_gb_year_country, df_meta, df_map, df_geo,
                    df_country_time >>

NormalizeCounts ==
    /\ pc = "metrics"
    /\ df_map_full' = DeriveMetrics(df_map_full)
    /\ pc' = "timeseries"
    /\ UNCHANGED << inputs, cache, slider, selectbox, df, df_year,
                    df_gb_year_country, df_meta, df_map, df_geo,
                    df_country_time >>

countries == Sorted({ r.Country : r \in df })

selected_country == selectbox.value

\* The selectbox returns the user's choice while its options are those the
\* user saw, the first option otherwise.  astype(int) raises on a Year with no
\* four digits in a row.
TimeSeries ==
    /\ pc = "timeseries"
    /\ LET value == IF selectbox.options = countries THEN selectbox.value
                    ELSE countries[1]
       IN  /\ selectbox' = [options |-> countries, value |-> value]
           /\ IF \E r \in df : ExtractYear(r.Year) = NoneStr
              THEN /\ pc' = "error"
                   /\ UNCHANGED df_country_time
              ELSE /\ df_country_time' = CountryTime(df, value)
                   /\ pc' = "done"
    /\ UNCHANGED << inputs, cache, slider, df, df_year, df_gb_year_country,
                    df_meta, df_map, df_geo, df_map_full >>

-----------------------------------------------------------------------------
(* The user and the file system, between two runs of the script.            *)

Idle == pc \in {"done", "error"}

\* Streamlit runs the script again from the top, in a fresh namespace.
Restart ==
    /\ pc' = "load"
    /\ df' = {}
    /\ df_year' = {}
    /\ df_gb_year_country' = Unset
    /\ df_meta' = Unset
    /\ df_map' = Unset
    /\ df_geo' = Unset
    /\ df_map_full' = Unset
    /\ df_country_time' = Unset

Rerun ==
    /\ Idle
    /\ Restart
    /\ UNCHANGED << inputs, cache, slider, selectbox >>

MoveSlider ==
    /\ Idle
    /\ slider.shown
    /\ \E y \in (slider.min..slider.max) \ {slider.value} :
          slider' = [slider EXCEPT !.value = y]
    /\ Restart
    /\ UNCHANGED << inputs, cache, selectbox >>

SelectCountry ==
    /\ Idle
    /\ \E c \in Range(selectbox.options) \ {selectbox.value} :
          selectbox' = [selectbox EXCEPT !.value = c]
    /\ Restart
    /\ UNCHANGED << inputs, cache, slider >>

SamePath(f, g) == f.parent = g.parent /\ f.stem = g.stem

\* A file is created under the root, or written again.
WriteFile(files) ==
    /\ Idle
    /\ \E f \in files :
          /\ f \notin dir
          /\ dir' = { g \in dir : ~SamePath(f, g) } \cup {f}
          /\ Cardinality(dir') <= MaxFiles
    /\ UNCHANGED << metadata_csv, geo_names, cache, slider, selectbox, pc, df,
                    df_year, df_gb_year_country, df_meta, df_map, df_geo,
                    df_map_full, df_country_time >>

DeleteFile ==
    /\ Idle
    /\ \E f \in dir : dir' = dir \ {f}
    /\ UNCHANGED << metadata_csv, geo_names, cache, slider, selectbox, pc, df,
                    df_year, df_gb_year_country, df_meta, df_map, df_geo,
                    df_map_full, df_country_time >>

Script ==
    \/ LoadData
    \/ YearSelection
    \/ AggregateArticles
    \/ LoadMetadata
    \/ MergeCounts
    \/ LoadGeo
    \/ Reconcile
    \/ NormalizeCounts
    \/ TimeSeries

Next == Script \/ Rerun \/ MoveSlider \/ SelectCountry

-----------------------------------------------------------------------------
(* The specifications.                                                      *)

\* Reconciliation: a few article files, metadata tables and geo features
\* whose names meet, or fail to meet, on the canonical key.
ArticleFiles == {Kenya2021, Kenya2022, Cote2021, CoteAccent2021, GhanaNoUrl2021}

MetaRows ==
    { MetaRow(<<"K", "e", "n", "y", "a">>, <<"5", "3", ",", "0", "0", "0">>, <<"1", "0", "0">>),
      MetaRow(<<"K", "e", "n", "y", "a">>, <<"0">>, <<"0">>),
      MetaRow(<<"C", "o", "t", "e", " ", "d", "'", "I", "v", "o", "i", "r", "e">>, <<"2", "6", ",", "0", "0", "0">>, <<"7", "0">>),
      MetaRow(<<"C", "ô", "t", "e", " ", "d", "'", "I", "v", "o", "i", "r", "e">>, NoneStr, <<"t", "b", "d">>) }

GeoNames == {<<"K", "e", "n", "y", "a">>, <<"I", "v", "o", "r", "y", " ", "C", "o", "a", "s", "t">>}

Init ==
    InitWith(Directories(ArticleFiles, MaxFiles), Tables(MetaRows, MaxMetaRows),
             SeqsUpTo(GeoNames, MaxGeo))

Spec == Init /\ [][Next]_vars

SomeMeta == << MetaRow(<<"K", "e", "n", "y", "a">>, <<"5", "3", ",", "0", "0", "0">>, <<"1", "0", "0">>) >>

SomeGeo == << <<"K", "e", "n", "y", "a">> >>

SomeFiles == {Kenya2021, Kenya2022, Cote2021}

\* The loader: files whose names and places differ.
LoadFiles ==
    {Kenya2021, Kenya2022, Cote2021, KenyaAtRoot2021, KenyaMisfiled2021,
     KenyaSpan2022, KenyaDashed2022}

InitLoad == InitWith(Directories(LoadFiles, MaxFiles), {SomeMeta}, {SomeGeo})

SpecLoad == InitLoad /\ [][Next]_vars

\* The loader while the files under the root change between runs.
NextFiles == Next \/ WriteFile(LoadFiles) \/ DeleteFile

SpecFiles == InitLoad /\ [][NextFiles]_vars

\* The metadata normaliser: tables of population cells of either unit.
PopulationCells ==
    {<<"1", ",", "2", "0", "0">>, <<"9", "5", "0">>, <<" ", "9", "9", "9", ",", "9", "9", "9", " ">>, <<"1", ",", "0", "0", "0", ",", "0", "0", "0">>, <<"2", ",", "5", "0", "0", ",", "0", "0", "0">>, <<"0">>, <<"t", "b", "d">>, NoneStr}

InitMeta ==
    InitWith({SomeFiles},
             Tables({ MetaRow(c, p, <<"1", "0", "0">>) :
                        c \in {<<"K", "e", "n", "y", "a">>, <<"G", "a", "m", "b", "i", "a">>, <<"G", "h", "a", "n", "a">>}, p \in PopulationCells },
                    MaxMetaRows),
             {SomeGeo})

SpecMeta == InitMeta /\ [][Next]_vars

\* The alias resolver: the names of the alias table, spelling variants of
\* them, and the empty names.
AliasNames ==
    AliasKeys
      \cup { COUNTRY_ALIASES[i].value : i \in DOMAIN COUNTRY_ALIASES }
      \cup { NoneStr, <<>>, <<" ">>, <<"NBSP">>, <<"K", "e", "n", "y", "a">>, <<" ", "K", "e", "n", "y", "a", " ">>, <<"NBSP">> \o <<"K", "e", "n", "y", "a">>,
             <<"C", "o", "t", "e", " ", "d", "'", "I", "v", "o", "i", "r", "e">>, <<"C", "ô", "t", "e", " ", "d", "'", "I", "v", "o", "i", "r", "e">>, <<"T", "h", "e", " ", "G", "a", "m", "b", "i", "a">>, <<"D", "J", "I", "B", "O", "U", "T", "I", ".">> }

MaxNames == 1

InitAlias ==
    InitWith({SomeFiles}, {SomeMeta}, SeqsUpTo(AliasNames, MaxNames))

SpecAlias == InitAlias /\ [][Next]_vars

-----------------------------------------------------------------------------
(* The claims.                                                              *)

Aggregated ==
    pc \in {"metadata", "merge", "geo", "reconcile", "metrics", "timeseries", "done"}

MetaLoaded == pc \in {"merge", "geo", "reconcile", "metrics", "timeseries", "done"}

GeoLoaded == pc \in {"reconcile", "metrics", "timeseries", "done"}

Merged == pc \in {"metrics", "timeseries", "done"}

Derived == pc \in {"timeseries", "done"}

IsZero(x) == x.kind = "num" /\ x.num = 0

MetaRowsOf(key) == { i \in DOMAIN df_meta : df_meta[i].Country_clean = key }

CountRowsOf(key) ==
    { i \in DOMAIN df_gb_year_country : df_gb_year_country[i].Country_clean = key }

\* C1: the reconciled table has one row per geo entity, in the entities'
\* order: none dropped, none duplicated, none added.
C1_OneRowPerGeoEntity ==
    Merged =>
        /\ Len(df_map_full) = Len(geo_names)
        /\ \A i \in DOMAIN geo_names : df_map_full[i].Country = geo_names[i]

\* C2: a geo entity whose key has a metadata row carries that row's
\* Population and GDP, with or without articles in the selected year; both
\* are null when the metadata has no row of the key.
C2_MetadataAttached ==
    Merged =>
        \A i \in DOMAIN df_map_full :
            LET row == df_map_full[i]
                ms  == MetaRowsOf(row.Country_clean)
            IN  IF ms = {}
                THEN IsNull(row.Population) /\ IsNull(row.GDP)
                ELSE \E m \in ms : /\ row.Population = df_meta[m].Population
                                   /\ row.GDP = df_meta[m].GDP

\* C3: a row whose population is 0 or null has a null
\* articles_per_million_people, and a row whose GDP is 0 or null has a null
\* articles_per_billion_gdp: never an infinite one.
C3_NullMetricOnZeroDenominator ==
    Derived =>
        \A i \in DOMAIN df_map_full :
            LET row == df_map_full[i]
            IN  /\ (IsNull(row.Population) \/ IsZero(row.Population))
                      => IsNull(row.articles_per_million_people)
                /\ (IsNull(row.GDP) \/ IsZero(row.GDP))
                      => IsNull(row.articles_per_billion_gdp)

CountryOf(f) == Title(Strip(SplitFirst(f.stem, "_")))

RECURSIVE RowsOf(_)
RowsOf(files) ==
    IF files = {} THEN 0
    ELSE LET f == CHOOSE g \in files : TRUE
         IN  Len(f.url) + RowsOf(files \ {f})

\* The total the map aggregation holds for a country label, 0 without a row.
MapTotal(c) ==
    LET at == { i \in DOMAIN df_gb_year_country : df_gb_year_country[i].Country = c }
    IN  IF at = {} THEN 0 ELSE df_gb_year_country[CHOOSE i \in at : TRUE].total_articles.num

\* C4: the total of a country for the selected year is the number of rows of
\* its files whose name carries that year, wherever the files sit under the
\* root.
C4_TotalsFollowFilenameYear ==
    Aggregated =>
        \A c \in { CountryOf(f) : f \in dir } :
            MapTotal(c) =
                RowsOf({ f \in dir : /\ CountryOf(f) = c
                                     /\ Contains(f.stem, ToStr(selected_year)) })

\* C5: clean_country of a key of COUNTRY_ALIASES is the value the table maps
\* it to, and clean_country of that value is the value again.
C5_AliasKeysResolve ==
    GeoLoaded =>
        \A i \in DOMAIN df_geo :
            df_geo[i].Country \in AliasKeys =>
                /\ df_geo[i].Country_clean = AliasGet(df_geo[i].Country, NoneStr)
                /\ clean_country(df_geo[i].Country_clean) = df_geo[i].Country_clean

\* C6: the records load_and_combine_data returns are those a fresh scan of the
\* directory's contents at the call would return.
C6_LoadedRecordsAreFresh == pc = "year" => df = load_and_combine_data(dir)

\* C7: a geo entity whose key matches no metadata row has a null Population
\* and a null articles_per_million_people; total_articles is a number in every
\* row, 0 when no article row matched.
C7_UnmatchedDefaults ==
    Derived =>
        \A i \in DOMAIN df_map_full :
            LET row == df_map_full[i]
            IN  /\ MetaRowsOf(row.Country_clean) = {}
                      => /\ IsNull(row.Population)
                         /\ IsNull(row.articles_per_million_people)
                /\ row.total_articles.kind = "num"
                /\ CountRowsOf(row.Country_clean) = {} => row.total_articles = Float(0)

C7_Witness ==
    /\ Derived
    /\ \E i \in DOMAIN df_map_full :
          /\ MetaRowsOf(df_map_full[i].Country_clean) = {}
          /\ CountRowsOf(df_map_full[i].Country_clean) = {}
          /\ df_meta # <<>>
          /\ df_gb_year_country # <<>>
          /\ df_map_full[i].total_articles = Float(0)
          /\ IsNull(df_map_full[i].articles_per_million_people)

ParsedPopulation(i) == ParseNumber(metadata_csv[i].Population)

AllBelowMillion ==
    /\ \E i \in DOMAIN metadata_csv : ~IsNull(ParsedPopulation(i))
    /\ \A i \in DOMAIN metadata_csv :
          ~IsNull(ParsedPopulation(i)) => ParsedPopulation(i).num < 1000000

\* C8: the unit correction is one decision per load: when the largest parsed
\* population is below 1,000,000 every non-null population is multiplied by
\* 1000 ("1,200" becomes 1,200,000), otherwise none is changed.
C8_GlobalUnitCorrection ==
    MetaLoaded =>
        /\ Len(df_meta) = Len(metadata_csv)
        /\ \A i \in DOMAIN metadata_csv :
              /\ IsNull(ParsedPopulation(i)) => IsNull(df_meta[i].Population)
              /\ ~IsNull(ParsedPopulation(i)) =>
                    df_meta[i].Population =
                        Float(IF AllBelowMillion THEN ParsedPopulation(i).num * 1000
                              ELSE ParsedPopulation(i).num)
              /\ (metadata_csv[i].Population = <<"1", ",", "2", "0", "0">> /\ AllBelowMillion)
                    => df_meta[i].Population = Float(1200000)

C8_Witness ==
    /\ MetaLoaded
    /\ Len(metadata_csv) = 2
    /\ metadata_csv[1].Population = <<"1", ",", "2", "0", "0">>
    /\ metadata_csv[2].Population = <<"9", "5", "0">>
    /\ df_meta[1].Population = Float(1200000)
    /\ df_meta[2].Population = Float(950000)

IsEmptyName(name) == IsNa(name) \/ \A i \in DOMAIN name : IsSpace(name[i])

\* C9: clean_country of a null or empty name (the empty string, a string of
\* white space) is null; no canonical key is the empty string.
C9_EmptyNameIsNull ==
    GeoLoaded =>
        \A i \in DOMAIN df_geo :
            /\ IsEmptyName(df_geo[i].Country) => IsNa(df_geo[i].Country_clean)
            /\ df_geo[i].Country_clean # <<>>

\* The total the time series holds for a year, 0 without a row.
TimeTotal(y) ==
    LET at == { i \in DOMAIN df_country_time : df_country_time[i].Year_int = y }
    IN  IF at = {} THEN 0 ELSE df_country_time[CHOOSE i \in at : TRUE].total_articles

\* C10: the map's total of the selected country for the selected year is the
\* time series' total of that country at that year.
C10_MapAndTimeSeriesAgree ==
    pc = "done" => MapTotal(selected_country) = TimeTotal(selected_year)

=============================================================================
